---- MODULE Spec2Model ----
(***************************************************************************)
(* Model of the AI routes of the productivity platform (src/ai.py):        *)
(* urgency scoring, deadline labels, the rule-based priority ranker, the   *)
(* rule-based daily plan, the keyword classifier and the optional OpenAI   *)
(* path of POST /api/ai/priorities.                                        *)
(*                                                                         *)
(* Conventions.                                                            *)
(*  - Instants (now, deadlines) are integers counting minutes.             *)
(*  - Hour quantities that are Python floats (estimatedHours, the running  *)
(*    clock of the daily plan, totalFocusHours, confidence) are fixed      *)
(*    point integers counting hundredths: 75 is 0.75.  The inputs are      *)
(*    multiples of 0.25, which binary floats represent exactly, so the     *)
(*    integer arithmetic below is the float arithmetic of the code.        *)
(*  - Text is a sequence of one-character strings.                         *)
(*  - One reading of the clock (now) serves a whole request.               *)
(***************************************************************************)
EXTENDS Integers, Sequences, FiniteSets, TLC

VARIABLES
    now,          \* datetime.now() of the request
    item,         \* ScoreSpec: the task handed to urgency_score / format_deadline
    scoreOut,     \* ScoreSpec: <<>> or <<urgency_score(item)>>
    labelOut,     \* ScoreSpec: <<>> or <<format_deadline(item)>>
    tasks,        \* PlanSpec, BackendSpec: request.tasks
    rankOut,      \* PlanSpec: <<>> or <<rule_based_priorities(tasks)>>
    planOut,      \* PlanSpec: <<>> or <<rule_based_daily_plan(tasks)>>
    apiKey,       \* BackendSpec: whether OPENAI_API_KEY is set
    pc,           \* BackendSpec: position of the /priorities request
    reply,        \* BackendSpec: what the awaited remote call produced
    response,     \* BackendSpec: <<>> or <<the AIPriorityResponse returned>>
    title,        \* SuggestSpec: AISuggestRequest.title
    description,  \* SuggestSpec: AISuggestRequest.description
    suggestOut    \* SuggestSpec: <<>> or <<rule_based_suggest(title, description)>>

vars == <<now, item, scoreOut, labelOut, tasks, rankOut, planOut,
          apiKey, pc, reply, response, title, description, suggestOut>>

scoreVars   == <<item, scoreOut, labelOut>>
planVars    == <<rankOut, planOut>>
backendVars == <<apiKey, pc, reply, response>>
suggestVars == <<title, description, suggestOut>>

(***************************************************************************)
(* Bounds of the model.                                                    *)
(***************************************************************************)
MaxPastSteps   == 100   \* deadlines reach back 100 half hours (50 h)
MaxFutureSteps == 450   \* and forward 450 half hours (225 h, over 9 days)
MaxTasks       == 6     \* longest task list of a ranking / planning request
MaxReqTasks    == 4     \* longest task list of a request on the OpenAI path
MaxBackendRecs == 4     \* most recommendation entries in a backend reply
MaxWords       == 2     \* most words in a title

Min(a, b) == IF a <= b THEN a ELSE b

(***************************************************************************)
(* schemas/task.py: the closed sets of the Task schema.                    *)
(***************************************************************************)
PriorityType == {"critical", "high", "medium", "low"}
StatusType   == {"pending", "in-progress", "completed", "overdue"}

(***************************************************************************)
(* A deadline is an Optional[str].  What the code can tell apart:          *)
(*   none    - None                                                        *)
(*   empty   - "" (falsy, like None)                                       *)
(*   invalid - text datetime.fromisoformat rejects (ValueError)            *)
(*   aware   - an ISO timestamp with a UTC offset: it parses, and          *)
(*             subtracting the naive datetime.now() raises TypeError       *)
(*   naive   - an ISO timestamp without offset, the instant `at`           *)
(***************************************************************************)
NoDeadline      == [kind |-> "none", at |-> 0]
EmptyDeadline   == [kind |-> "empty", at |-> 0]
InvalidDeadline == [kind |-> "invalid", at |-> 0]
AwareDeadline   == [kind |-> "aware", at |-> 0]
Naive(t)        == [kind |-> "naive", at |-> t]

\* `not task.deadline`
DeadlineFalsy(d) == d.kind \in {"none", "empty"}
\* datetime.fromisoformat(d) - datetime.now() raises (ValueError / TypeError)
DiffRaises(d) == d.kind \in {"invalid", "aware"}

\* PRIORITY_SCORE.get(priority, 0)
PRIORITY_SCORE(p) ==
    CASE p = "critical" -> 100
      [] p = "high"     -> 75
      [] p = "medium"   -> 50
      [] p = "low"      -> 25
      [] OTHER          -> 0

\* Faulty variant of time_score: the upper edge of each range is inclusive
time_score_wrong_edges(diffMin) ==
    IF diffMin < 0 THEN 200
    ELSE IF diffMin <= 24 * 60 THEN 150
    ELSE IF diffMin <= 72 * 60 THEN 100
    ELSE IF diffMin <= 168 * 60 THEN 50
    ELSE 10

\* diff_hours thresholds compared in minutes: diff_hours < h  <=>  diffMin < 60*h
time_score(diffMin) ==
    IF diffMin < 0 THEN 200
    ELSE IF diffMin < 24 * 60 THEN 150
    ELSE IF diffMin < 72 * 60 THEN 100
    ELSE IF diffMin < 168 * 60 THEN 50
    ELSE 10

urgency_score(task, clock) ==
    IF DeadlineFalsy(task.deadline) THEN PRIORITY_SCORE(task.priority)
    ELSE IF DiffRaises(task.deadline) THEN PRIORITY_SCORE(task.priority)
    ELSE PRIORITY_SCORE(task.priority) + time_score(task.deadline.at - clock)

\* Python int(x) of the float x = n / d (d > 0): truncation towards zero
IntTrunc(n, d) == IF n >= 0 THEN n \div d ELSE -((-n) \div d)

Abs(x) == IF x < 0 THEN -x ELSE x

\* A label is [kind, n]:
\*   "none"    "no deadline"          "raw"   the stored deadline string
\*   "overdue" "overdue by {n}d"      "hleft" "{n}h left"
\*   "dleft"   "{n}d left"            "date"  strftime("%b %d") of instant n
Label(k, n) == [kind |-> k, n |-> n]

format_deadline(task, clock) ==
    IF DeadlineFalsy(task.deadline) THEN Label("none", 0)
    ELSE IF DiffRaises(task.deadline) THEN Label("raw", 0)
    ELSE LET hours == IntTrunc(task.deadline.at - clock, 60)
             days  == hours \div 24
         IN IF hours < 0 THEN Label("overdue", Abs(hours \div 24))
            ELSE IF hours < 24 THEN Label("hleft", hours)
            ELSE IF days <= 7 THEN Label("dleft", days)
            ELSE Label("date", task.deadline.at)

(***************************************************************************)
(* Task records.  estimatedHours is <<>> (None) or <<h>> in hundredths.    *)
(***************************************************************************)
MkTask(id, status, priority, deadline, est) ==
    [id |-> id, status |-> status, priority |-> priority,
     deadline |-> deadline, estimatedHours |-> est]

NoTask == MkTask(0, "pending", "medium", NoDeadline, <<>>)

(***************************************************************************)
(* ScoreSpec: urgency_score and format_deadline applied to one task whose  *)
(* deadline ranges over a half-hour grid around now.                       *)
(***************************************************************************)
Grid == {k * 30 : k \in (-MaxPastSteps)..MaxFutureSteps}

ScoreDeadlines ==
    {NoDeadline, EmptyDeadline, InvalidDeadline, AwareDeadline}
        \cup {Naive(t) : t \in Grid}

IdleRest ==
    /\ tasks = <<>> /\ rankOut = <<>> /\ planOut = <<>>
    /\ apiKey = FALSE /\ pc = "idle" /\ reply = <<>> /\ response = <<>>
    /\ title = <<>> /\ description = <<>> /\ suggestOut = <<>>

ScoreInit ==
    /\ now = 0
    /\ item \in {MkTask(1, "pending", p, d, <<>>) :
                    p \in PriorityType, d \in ScoreDeadlines}
    /\ scoreOut = <<>>
    /\ labelOut = <<>>
    /\ IdleRest

ApplyUrgencyScore ==
    /\ scoreOut = <<>>
    /\ scoreOut' = <<urgency_score(item, now)>>
    /\ UNCHANGED <<now, item, labelOut, tasks, planVars, backendVars, suggestVars>>

ApplyFormatDeadline ==
    /\ labelOut = <<>>
    /\ labelOut' = <<format_deadline(item, now)>>
    /\ UNCHANGED <<now, item, scoreOut, tasks, planVars, backendVars, suggestVars>>

ScoreNext == ApplyUrgencyScore \/ ApplyFormatDeadline

ScoreSpec == ScoreInit /\ [][ScoreNext]_vars

(***************************************************************************)
(* Helpers over sequences and Python number formatting.                    *)
(***************************************************************************)
\* s[:n]
Take(s, n) == SubSeq(s, 1, Min(n, Len(s)))

RECURSIVE SumSeq(_)
SumSeq(s) == IF s = <<>> THEN 0 ELSE s[1] + SumSeq(Tail(s))

\* round(x, 1) and f"{x:.1f}" on a value in hundredths that the float holds
\* exactly: to the nearest tenth, a tie going to the even tenth.
Round1(x) ==
    LET q == x \div 10
        r == x % 10
    IN IF r < 5 THEN q * 10
       ELSE IF r > 5 THEN (q + 1) * 10
       ELSE IF q % 2 = 0 THEN q * 10 ELSE (q + 1) * 10

\* Faulty variant of Ceil: the hours are rounded down
CeilAsFloor(x) == (x \div 100) * 100

\* math.ceil(x), x in hundredths, the result in hundredths
Ceil(x) == ((x + 99) \div 100) * 100

DigitChar(d) ==
    CASE d = 0 -> "0" [] d = 1 -> "1" [] d = 2 -> "2" [] d = 3 -> "3"
      [] d = 4 -> "4" [] d = 5 -> "5" [] d = 6 -> "6" [] d = 7 -> "7"
      [] d = 8 -> "8" [] d = 9 -> "9"

\* f"{n}" for n >= 0
RECURSIVE Decimal(_)
Decimal(n) == IF n < 10 THEN <<DigitChar(n)>>
              ELSE Append(Decimal(n \div 10), DigitChar(n % 10))

\* f"{n:02d}" for n >= 0
Decimal02(n) == IF n < 10 THEN <<"0", DigitChar(n)>> ELSE Decimal(n)

\* f"{int(x)}:{int((x % 1) * 60):02d}" for the clock value x in hundredths
ClockText(x) ==
    Decimal(x \div 100) \o <<":">> \o Decimal02(((x % 100) * 60) \div 100)

(***************************************************************************)
(* rule_based_priorities and rule_based_daily_plan.                        *)
(***************************************************************************)
\* Faulty variant of Active: the status filter is lost
ActiveWithCompleted(ts) == ts

\* [t for t in tasks if t.status != "completed"]

Active(ts) == SelectSeq(ts, LAMBDA t : t.status # "completed")

\* Faulty variant of InsertDesc: a task goes before the placed tasks of equal
\* score, which reverses the input order of ties
InsertDescBeforeTies(sorted, t, clock) ==
    LET k == Cardinality({i \in 1..Len(sorted) :
                 urgency_score(sorted[i], clock) > urgency_score(t, clock)})
    IN SubSeq(sorted, 1, k) \o <<t>> \o SubSeq(sorted, k + 1, Len(sorted))

\* sorted(ts, key=urgency_score, reverse=True): descending by score, and
\* stable (Python keeps the input order of equal keys under reverse=True).
\* Built by inserting the tasks in input order, each after every task already
\* placed whose score is at least its own.
InsertDesc(sorted, t, clock) ==
    LET k == Cardinality({i \in 1..Len(sorted) :
                 urgency_score(sorted[i], clock) >= urgency_score(t, clock)})
    IN SubSeq(sorted, 1, k) \o <<t>> \o SubSeq(sorted, k + 1, Len(sorted))

RECURSIVE SortedByUrgency(_, _)
SortedByUrgency(ts, clock) ==
    IF ts = <<>> THEN <<>>
    ELSE InsertDesc(SortedByUrgency(SubSeq(ts, 1, Len(ts) - 1), clock),
                    ts[Len(ts)], clock)

\* t.estimatedHours or 2
HoursOr2(t) == IF t.estimatedHours = <<>> THEN 200 ELSE t.estimatedHours[1]

TopRecommendations == 3   \* sorted_tasks[:3]
TopBlocks          == 4   \* active[:4]

\* reasons[i].format(p=t.priority, d=format_deadline(t)): only the first
\* template holds the {p} and {d} fields.
Reason(i, t, clock) ==
    IF i = 1 THEN [template |-> i, p |-> t.priority, d |-> format_deadline(t, clock)]
    ELSE [template |-> i, p |-> "", d |-> Label("none", 0)]

Insight(ts) ==
    [source   |-> "rules",
     active   |-> Len(ts),
     critical |-> Len(SelectSeq(ts, LAMBDA t : t.priority = "critical")),
     hours    |-> Round1(SumSeq([i \in 1..Len(ts) |-> HoursOr2(ts[i])]))]

rule_based_priorities(ts, clock) ==
    LET active == Active(ts)
        top    == Take(SortedByUrgency(active, clock), TopRecommendations)
    IN [recommendations |->
            [i \in 1..Len(top) |->
                [taskId        |-> top[i].id,
                 rank          |-> i,
                 reason        |-> Reason(i, top[i], clock),
                 suggestedTime |-> i]],
        insight |-> Insight(active)]

\* Faulty variant of PlanLoop: the lunch gap follows the first block (i = 0)
RECURSIVE PlanLoopLunchAfterFirst(_, _, _)
PlanLoopLunchAfterFirst(sel, i, current_hour) ==
    IF i >= Len(sel) THEN <<>>
    ELSE LET task     == sel[i + 1]
             dur      == HoursOr2(task)
             end_hour == current_hour + dur
             block    == [startTime |-> ClockText(current_hour),
                          endTime   |-> ClockText(end_hour),
                          taskId    |-> task.id,
                          template  |-> i % 4]
         IN <<block>> \o PlanLoopLunchAfterFirst(sel, i + 1,
                 current_hour + Ceil(dur) + (IF i = 0 THEN 50 ELSE 0))

\* The loop of rule_based_daily_plan from index i (0-based, as enumerate
\* counts) with the running clock current_hour.
RECURSIVE PlanLoop(_, _, _)
PlanLoop(sel, i, current_hour) ==
    IF i >= Len(sel) THEN <<>>
    ELSE LET task     == sel[i + 1]
             dur      == HoursOr2(task)
             end_hour == current_hour + dur
             block    == [startTime |-> ClockText(current_hour),
                          endTime   |-> ClockText(end_hour),
                          taskId    |-> task.id,
                          template  |-> i % 4]
         IN <<block>> \o PlanLoop(sel, i + 1,
                 current_hour + Ceil(dur) + (IF i = 1 THEN 50 ELSE 0))

\* Faulty variant of FocusSum: the sum runs over every active task
FocusOfAllActive(active) == SumSeq([i \in 1..Len(active) |-> HoursOr2(active[i])])

\* sum(t.estimatedHours or 2 for t in active[:4])
FocusSum(active) ==
    LET sel == Take(active, TopBlocks)
    IN SumSeq([i \in 1..Len(sel) |-> HoursOr2(sel[i])])

rule_based_daily_plan(ts, clock) ==
    LET active == SortedByUrgency(Active(ts), clock)
    IN [timeBlocks      |-> PlanLoop(Take(active, TopBlocks), 0, 900),
        totalFocusHours |-> Round1(FocusSum(active))]

(***************************************************************************)
(* PlanSpec: the two rule-based functions applied to a task list drawn     *)
(* from a pool of task shapes; a task's id is its place in the list.       *)
(***************************************************************************)
TaskPool ==
    { MkTask(0, "pending",     "critical", Naive(-60),       <<>>),
      MkTask(0, "in-progress", "high",     Naive(12 * 60),   <<300>>),
      MkTask(0, "overdue",     "low",      Naive(-30),       <<75>>),
      MkTask(0, "completed",   "critical", NoDeadline,       <<150>>),
      MkTask(0, "pending",     "medium",   InvalidDeadline,  <<10000>>) }

\* ts is a list of at most maxLen tasks of the pool, numbered by place
IsTaskList(ts, maxLen) ==
    \E n \in 0..maxLen :
        \E f \in [1..n -> TaskPool] :
            ts = [i \in 1..n |-> [f[i] EXCEPT !.id = i]]

PlanInit ==
    /\ now = 0
    /\ IsTaskList(tasks, MaxTasks)
    /\ rankOut = <<>>
    /\ planOut = <<>>
    /\ item = NoTask /\ scoreOut = <<>> /\ labelOut = <<>>
    /\ apiKey = FALSE /\ pc = "idle" /\ reply = <<>> /\ response = <<>>
    /\ title = <<>> /\ description = <<>> /\ suggestOut = <<>>

ApplyRank ==
    /\ rankOut = <<>>
    /\ rankOut' = <<rule_based_priorities(tasks, now)>>
    /\ UNCHANGED <<now, tasks, planOut, scoreVars, backendVars, suggestVars>>

ApplyBuild ==
    /\ planOut = <<>>
    /\ planOut' = <<rule_based_daily_plan(tasks, now)>>
    /\ UNCHANGED <<now, tasks, rankOut, scoreVars, backendVars, suggestVars>>

PlanNext == ApplyRank \/ ApplyBuild

PlanSpec == PlanInit /\ [][PlanNext]_vars

(***************************************************************************)
(* The OpenAI path: analyze_priorities and openai_priorities.              *)
(*                                                                         *)
(* What the awaited client.chat.completions.create(...) produced:          *)
(*   error    - the SDK raised (connection, status, authentication error)  *)
(*   timeout  - the SDK's own request timeout raised (an Exception)        *)
(*   setup    - raised before the await (import or client construction)    *)
(*   not_json - a message whose content json.loads rejects                 *)
(*   json     - a JSON object; hasRecs / hasInsight tell whether it has    *)
(*              the keys, entries are the items of "recommendations",     *)
(*              each fitting AIRecommendation (ok) or not                  *)
(*   cancelled - asyncio.CancelledError raised at the await                *)
(***************************************************************************)
Reply(kind, hasRecs, hasInsight, entries) ==
    [kind |-> kind, hasRecs |-> hasRecs, hasInsight |-> hasInsight,
     entries |-> entries]

Entry(j, ok) == [taskId |-> j, rank |-> j, ok |-> ok]

BackendInsight == [source |-> "backend", active |-> 0, critical |-> 0, hours |-> 0]

\* AIRecommendation(**r) of an entry of the reply
BackendRecommendation(e) ==
    [taskId        |-> e.taskId,
     rank          |-> e.rank,
     reason        |-> [template |-> 0, p |-> "", d |-> Label("none", 0)],
     suggestedTime |-> 0]

\* Faulty variant of ReplyRaises: entries are not validated
ReplyRaisesUnlessEntryBad(r) ==
    \/ r.kind \in {"error", "timeout", "setup"}
    \/ r.kind = "not_json"
    \/ ~r.hasRecs
    \/ ~r.hasInsight

\* Whether the try body of openai_priorities raises an Exception for reply r
ReplyRaises(r) ==
    \/ r.kind \in {"error", "timeout", "setup"}       \* raised by the call
    \/ r.kind = "not_json"                            \* json.loads
    \/ ~r.hasRecs                                     \* data["recommendations"]
    \/ \E i \in DOMAIN r.entries : ~r.entries[i].ok   \* AIRecommendation(**r)
    \/ ~r.hasInsight                                  \* data["insight"]

\* openai_priorities from the outcome of the call to its return: the try body
\* after the await, and the except Exception handler.
openai_priorities_result(r, ts, clock) ==
    IF ReplyRaises(r) THEN rule_based_priorities(ts, clock)
    ELSE [recommendations |->
              [i \in 1..Len(r.entries) |-> BackendRecommendation(r.entries[i])],
          insight |-> BackendInsight]

EntryLists ==
    UNION {{[i \in 1..n |-> Entry(i, i # bad)] : bad \in 0..n} : n \in 0..MaxBackendRecs}

Replies ==
    {Reply("error", FALSE, FALSE, <<>>), Reply("timeout", FALSE, FALSE, <<>>),
     Reply("not_json", FALSE, FALSE, <<>>),
     Reply("json", FALSE, TRUE, <<>>)}
        \cup {Reply("json", TRUE, FALSE, <<Entry(1, TRUE)>>)}
        \cup {Reply("json", TRUE, TRUE, es) : es \in EntryLists}

BackendInit ==
    /\ now = 0
    /\ IsTaskList(tasks, MaxReqTasks)
    /\ apiKey \in BOOLEAN
    /\ pc = "start"
    /\ reply = <<>>
    /\ response = <<>>
    /\ item = NoTask /\ scoreOut = <<>> /\ labelOut = <<>>
    /\ rankOut = <<>> /\ planOut = <<>>
    /\ title = <<>> /\ description = <<>> /\ suggestOut = <<>>

\* analyze_priorities: `if not request.tasks: raise HTTPException(400)`
RejectEmpty ==
    /\ pc = "start"
    /\ tasks = <<>>
    /\ pc' = "rejected"
    /\ UNCHANGED <<now, tasks, apiKey, reply, response, scoreVars, planVars, suggestVars>>

\* analyze_priorities without OPENAI_API_KEY
AnalyzeRuleBased ==
    /\ pc = "start"
    /\ tasks # <<>>
    /\ ~apiKey
    /\ response' = <<rule_based_priorities(tasks, now)>>
    /\ pc' = "done"
    /\ UNCHANGED <<now, tasks, apiKey, reply, scoreVars, planVars, suggestVars>>

\* analyze_priorities with the key: openai_priorities up to its await
AnalyzeOpenAI ==
    /\ pc = "start"
    /\ tasks # <<>>
    /\ apiKey
    /\ pc' = "awaiting"
    /\ UNCHANGED <<now, tasks, apiKey, reply, response, scoreVars, planVars, suggestVars>>

\* openai_priorities raising inside the try before the await is reached
OpenAISetupFails ==
    /\ pc = "start"
    /\ tasks # <<>>
    /\ apiKey
    /\ reply' = <<Reply("setup", FALSE, FALSE, <<>>)>>
    /\ response' = <<openai_priorities_result(reply'[1], tasks, now)>>
    /\ pc' = "done"
    /\ UNCHANGED <<now, tasks, apiKey, scoreVars, planVars, suggestVars>>

\* The await ends with a reply or an Exception; the rest of openai_priorities
BackendReturns ==
    /\ pc = "awaiting"
    /\ \E r \in Replies :
          /\ reply' = <<r>>
          /\ response' = <<openai_priorities_result(r, tasks, now)>>
    /\ pc' = "done"
    /\ UNCHANGED <<now, tasks, apiKey, scoreVars, planVars, suggestVars>>

\* The task is cancelled at the await: CancelledError is a BaseException,
\* `except Exception` does not catch it and it leaves the handler.
Cancelled ==
    /\ pc = "awaiting"
    /\ reply' = <<Reply("cancelled", FALSE, FALSE, <<>>)>>
    /\ pc' = "cancelled"
    /\ UNCHANGED <<now, tasks, apiKey, response, scoreVars, planVars, suggestVars>>

BackendNext ==
    \/ RejectEmpty
    \/ AnalyzeRuleBased
    \/ AnalyzeOpenAI
    \/ OpenAISetupFails
    \/ BackendReturns
    \/ Cancelled

BackendSpec == BackendInit /\ [][BackendNext]_vars

(***************************************************************************)
(* rule_based_suggest.  A rule is (keywords, priority, hours, tip,         *)
(* confidence); tip k stands for the tip text of rule k, 0 for the         *)
(* default's; hours and confidence count hundredths.                       *)
(***************************************************************************)
UpperLetters ==
    <<"A", "B", "C", "D", "E", "F", "G", "H", "I", "J", "K", "L", "M", "N", "O", "P", "Q", "R", "S", "T", "U", "V", "W", "X", "Y", "Z">>
LowerLetters ==
    <<"a", "b", "c", "d", "e", "f", "g", "h", "i", "j", "k", "l", "m", "n", "o", "p", "q", "r", "s", "t", "u", "v", "w", "x", "y", "z">>

\* str.lower() on the characters of the model's texts
LowerChar(c) ==
    IF \E i \in DOMAIN UpperLetters : UpperLetters[i] = c
    THEN LowerLetters[CHOOSE i \in DOMAIN UpperLetters : UpperLetters[i] = c]
    ELSE c

Lower(s) == [i \in DOMAIN s |-> LowerChar(s[i])]

\* kw in text
Contains(text, kw) ==
    \E i \in 1..(Len(text) - Len(kw) + 1) : SubSeq(text, i, i + Len(kw) - 1) = kw

rules ==
    <<
      [keywords |->
         <<<<"f", "i", "n", "a", "n", "c", "e">>,
          <<"b", "u", "d", "g", "e", "t">>,
          <<"i", "n", "v", "o", "i", "c", "e">>,
          <<"p", "a", "y", "r", "o", "l", "l">>,
          <<"a", "u", "d", "i", "t">>>>,
       priority |-> "critical", estimatedHours |-> 400, tip |-> 1, confidence |-> 92],
      [keywords |->
         <<<<"s", "e", "c", "u", "r", "i", "t", "y">>,
          <<"v", "u", "l", "n", "e", "r", "a", "b", "i", "l", "i", "t", "y">>,
          <<"b", "r", "e", "a", "c", "h">>,
          <<"i", "n", "c", "i", "d", "e", "n", "t">>>>,
       priority |-> "critical", estimatedHours |-> 300, tip |-> 2, confidence |-> 95],
      [keywords |->
         <<<<"e", "n", "g", "i", "n", "e", "e", "r">>,
          <<"a", "r", "c", "h", "i", "t", "e", "c", "t", "u", "r", "e">>,
          <<"c", "o", "d", "e">>,
          <<"s", "y", "s", "t", "e", "m">>,
          <<"d", "e", "p", "l", "o", "y">>,
          <<"i", "n", "f", "r", "a">>>>,
       priority |-> "high", estimatedHours |-> 300, tip |-> 3, confidence |-> 88],
      [keywords |->
         <<<<"d", "e", "a", "d", "l", "i", "n", "e">>,
          <<"u", "r", "g", "e", "n", "t">>,
          <<"a", "s", "a", "p">>,
          <<"c", "r", "i", "t", "i", "c", "a", "l">>,
          <<"l", "a", "u", "n", "c", "h">>>>,
       priority |-> "high", estimatedHours |-> 250, tip |-> 4, confidence |-> 90],
      [keywords |->
         <<<<"m", "a", "r", "k", "e", "t">>,
          <<"c", "a", "m", "p", "a", "i", "g", "n">>,
          <<"c", "o", "n", "t", "e", "n", "t">>,
          <<"b", "r", "a", "n", "d">>,
          <<"s", "e", "o">>>>,
       priority |-> "medium", estimatedHours |-> 250, tip |-> 5, confidence |-> 85],
      [keywords |->
         <<<<"m", "e", "e", "t", "i", "n", "g">>,
          <<"s", "y", "n", "c">>,
          <<"r", "e", "v", "i", "e", "w">>,
          <<"i", "n", "t", "e", "r", "v", "i", "e", "w">>,
          <<"1", ":", "1">>>>,
       priority |-> "medium", estimatedHours |-> 150, tip |-> 6, confidence |-> 80],
      [keywords |->
         <<<<"d", "o", "c", "u", "m", "e", "n", "t">>,
          <<"r", "e", "a", "d", "m", "e">>,
          <<"w", "i", "k", "i">>,
          <<"r", "e", "p", "o", "r", "t">>,
          <<"a", "n", "a", "l", "y", "s", "i", "s">>>>,
       priority |-> "medium", estimatedHours |-> 200, tip |-> 7, confidence |-> 82],
      [keywords |->
         <<<<"r", "e", "s", "e", "a", "r", "c", "h">>,
          <<"e", "x", "p", "l", "o", "r", "e">>,
          <<"i", "n", "v", "e", "s", "t", "i", "g", "a", "t", "e">>,
          <<"s", "p", "i", "k", "e">>>>,
       priority |-> "low", estimatedHours |-> 300, tip |-> 8, confidence |-> 78]
    >>

\* any(kw in text for kw in keywords)
RuleMatches(k, text) ==
    \E j \in DOMAIN rules[k].keywords : Contains(text, rules[k].keywords[j])

\* Faulty variant of FirstMatch: the last rule that matches wins
RECURSIVE LastMatch(_, _)
LastMatch(k, text) ==
    IF k > Len(rules) THEN 0
    ELSE LET later == LastMatch(k + 1, text)
         IN IF later # 0 THEN later
            ELSE IF RuleMatches(k, text) THEN k ELSE 0

\* The for loop over rules from rule k: the first rule that matches, 0 if none
RECURSIVE FirstMatch(_, _)
FirstMatch(k, text) ==
    IF k > Len(rules) THEN 0
    ELSE IF RuleMatches(k, text) THEN k
    ELSE FirstMatch(k + 1, text)

\* (title + " " + (description or "")).lower()
SuggestText(ti, de) == Lower(ti \o <<" ">> \o de)

rule_based_suggest(ti, de) ==
    LET k == FirstMatch(1, SuggestText(ti, de))
    IN IF k # 0
       THEN [priority |-> rules[k].priority,
             estimatedHours |-> rules[k].estimatedHours,
             tip |-> rules[k].tip,
             confidence |-> rules[k].confidence]
       ELSE [priority |-> "medium", estimatedHours |-> 200, tip |-> 0,
             confidence |-> 70]

(***************************************************************************)
(* SuggestSpec: rule_based_suggest applied to a title of one to MaxWords   *)
(* words and a description that is empty or one word.                      *)
(***************************************************************************)
Vocabulary ==
    { <<"B", "u", "d", "g", "e", "t">>,
      <<"s", "e", "c", "u", "r", "i", "t", "y">>,
      <<"d", "e", "c", "o", "d", "e">>,
      <<"U", "R", "G", "E", "N", "T">>,
      <<"s", "e", "o">>,
      <<"1", ":", "1">>,
      <<"W", "i", "k", "i">>,
      <<"s", "p", "i", "k", "e">>,
      <<"l", "u", "n", "c", "h">>,
      <<"c", "r", "i", "t", "i", "c", "a", "l">> }

RECURSIVE Phrases(_)
Phrases(n) ==
    IF n = 1 THEN Vocabulary
    ELSE Phrases(n - 1) \cup
         {ph \o <<" ">> \o w : ph \in Phrases(n - 1), w \in Vocabulary}

SuggestInit ==
    /\ now = 0
    /\ title \in Phrases(MaxWords)
    /\ description \in {<<>>} \cup Vocabulary
    /\ suggestOut = <<>>
    /\ item = NoTask /\ scoreOut = <<>> /\ labelOut = <<>>
    /\ tasks = <<>> /\ rankOut = <<>> /\ planOut = <<>>
    /\ apiKey = FALSE /\ pc = "idle" /\ reply = <<>> /\ response = <<>>

ApplySuggest ==
    /\ suggestOut = <<>>
    /\ suggestOut' = <<rule_based_suggest(title, description)>>
    /\ UNCHANGED <<now, title, description, tasks, scoreVars, planVars, backendVars>>

SuggestNext == ApplySuggest

SuggestSpec == SuggestInit /\ [][SuggestNext]_vars

(***************************************************************************)
(*                              Properties                                 *)
(***************************************************************************)
NaiveAt(t) == t.deadline.kind = "naive"

\* The bonus table of the scorer's contract, by diffHours = diffMin / 60.
TableBonus(diffMin) ==
    CASE diffMin < 0                                   -> 200
      [] diffMin >= 0 /\ diffMin < 24 * 60             -> 150
      [] diffMin >= 24 * 60 /\ diffMin < 72 * 60       -> 100
      [] diffMin >= 72 * 60 /\ diffMin < 168 * 60      -> 50
      [] diffMin >= 168 * 60                           -> 10

TableBase(p) ==
    CASE p = "critical" -> 100 [] p = "high" -> 75
      [] p = "medium" -> 50 [] p = "low" -> 25

\* C6 (as claimed): a deadline that parses and lies before now is labelled
\* "overdue by {N}d" with N = |hours| // 24, hours being the whole hours
\* elapsed; never "h left".
C6_OverdueLabel ==
    (labelOut # <<>> /\ NaiveAt(item) /\ item.deadline.at < now) =>
        LET hours == IntTrunc(item.deadline.at - now, 60)
        IN labelOut[1] = Label("overdue", Abs(hours) \div 24)

ActiveIds == {k \in DOMAIN tasks : tasks[k].status # "completed"}

ScoreOfId(id) == urgency_score(tasks[id], now)

\* C4: the recommendations are in descending score order, equal scores in
\* input order, ranked 1, 2, 3 in output order, and no active task left out
\* scores strictly above one that is included.
C4_StableDescendingRank ==
    rankOut # <<>> =>
        LET recs == rankOut[1].recommendations
            included == {recs[i].taskId : i \in DOMAIN recs}
        IN /\ \A i \in DOMAIN recs : recs[i].rank = i
           /\ \A i, j \in DOMAIN recs :
                 i < j =>
                    \/ ScoreOfId(recs[i].taskId) > ScoreOfId(recs[j].taskId)
                    \/ /\ ScoreOfId(recs[i].taskId) = ScoreOfId(recs[j].taskId)
                       /\ recs[i].taskId < recs[j].taskId
           /\ \A k \in ActiveIds \ included :
                 \A i \in DOMAIN recs : ScoreOfId(k) <= ScoreOfId(recs[i].taskId)

C4_Witness ==
    /\ rankOut # <<>>
    /\ LET recs == rankOut[1].recommendations
       IN /\ Len(recs) = 3
          /\ ScoreOfId(recs[1].taskId) > ScoreOfId(recs[2].taskId)
          /\ ScoreOfId(recs[2].taskId) = ScoreOfId(recs[3].taskId)
          /\ tasks[recs[2].taskId].priority # tasks[recs[3].taskId].priority
          /\ \E k \in ActiveIds : \A i \in DOMAIN recs : recs[i].taskId # k

\* C5: with n active tasks, rank() gives exactly min(3, n) recommendations
\* and build() exactly min(4, n) time blocks, each of a different active
\* task of the input, and the insight counts n active tasks.
C5_CountsOfActive ==
    LET n == Cardinality(ActiveIds)
    IN /\ rankOut # <<>> =>
            LET recs == rankOut[1].recommendations
            IN /\ Len(recs) = Min(3, n)
               /\ \A i \in DOMAIN recs : recs[i].taskId \in ActiveIds
               /\ \A i, j \in DOMAIN recs : i # j => recs[i].taskId # recs[j].taskId
               /\ rankOut[1].insight.active = n
       /\ planOut # <<>> =>
            LET blocks == planOut[1].timeBlocks
            IN /\ Len(blocks) = Min(4, n)
               /\ \A i \in DOMAIN blocks : blocks[i].taskId \in ActiveIds
               /\ \A i, j \in DOMAIN blocks : i # j => blocks[i].taskId # blocks[j].taskId

C5_Witness ==
    /\ rankOut # <<>> /\ planOut # <<>>
    /\ Len(tasks) >= 2 /\ ActiveIds = {}
    /\ rankOut[1].recommendations = <<>> /\ planOut[1].timeBlocks = <<>>
    /\ rankOut[1].insight.active = 0

IsDigit(c) == c \in {"0", "1", "2", "3", "4", "5", "6", "7", "8", "9"}

DigitValue(c) == CHOOSE d \in 0..9 : DigitChar(d) = c

\* "HH:MM" on the 24 hour clock: two digits 00..23, a colon, two digits 00..59
IsClockTime(s) ==
    /\ Len(s) = 5
    /\ s[3] = ":"
    /\ \A i \in {1, 2, 4, 5} : IsDigit(s[i])
    /\ 10 * DigitValue(s[1]) + DigitValue(s[2]) <= 23
    /\ 10 * DigitValue(s[4]) + DigitValue(s[5]) <= 59

\* C7 (as claimed): every startTime and endTime of the plan is a valid
\* 24 hour HH:MM clock time.
C7_ClockTimes ==
    planOut # <<>> =>
        \A i \in DOMAIN planOut[1].timeBlocks :
            /\ IsClockTime(planOut[1].timeBlocks[i].startTime)
            /\ IsClockTime(planOut[1].timeBlocks[i].endTime)

\* The estimatedHours (2.0 when absent) of the tasks that appear in timeBlocks
BlockHours ==
    LET blocks == planOut[1].timeBlocks
    IN SumSeq([i \in 1..Len(blocks) |-> HoursOr2(tasks[blocks[i].taskId])])

\* C9 (as claimed): totalFocusHours equals the sum of the estimatedHours of
\* exactly the tasks in timeBlocks.
C9_FocusIsExactSum ==
    planOut # <<>> => planOut[1].totalFocusHours = BlockHours

\* C9 (amended): totalFocusHours equals that sum rounded to one decimal.
C9_FocusIsRoundedSum ==
    planOut # <<>> => planOut[1].totalFocusHours = Round1(BlockHours)

C9_Witness ==
    /\ planOut # <<>>
    /\ Cardinality(ActiveIds) > 4
    /\ ActiveIds # DOMAIN tasks
    /\ planOut[1].totalFocusHours # BlockHours
    /\ planOut[1].totalFocusHours = Round1(BlockHours)

RuleBased == rule_based_priorities(tasks, now)

\* The failures of the backend path the contract lists: the call raised
\* (before or at the await), the body is no JSON, the JSON lacks
\* 'recommendations' or 'insight', or an entry is no Recommendation.
ListedFailure(r) ==
    \/ r.kind \in {"error", "timeout", "setup", "not_json"}
    \/ r.kind = "json" /\ (~r.hasRecs \/ ~r.hasInsight)
    \/ r.kind = "json" /\ \E i \in DOMAIN r.entries : ~r.entries[i].ok

\* C1: whenever the backend path failed in one of the listed ways, or no
\* credential is set, the request is done (no error reached the caller) and
\* its recommendations and insight are those of rule_based_priorities for
\* the same tasks.
C1_FallbackOnFailure ==
    /\ (reply # <<>> /\ ListedFailure(reply[1])) =>
          /\ pc = "done"
          /\ response # <<>>
          /\ response[1].recommendations = RuleBased.recommendations
          /\ response[1].insight = RuleBased.insight
    /\ (~apiKey /\ tasks # <<>> /\ pc # "start") =>
          /\ pc = "done"
          /\ response = <<RuleBased>>

C1_Witness ==
    /\ apiKey /\ pc = "done" /\ reply # <<>>
    /\ reply[1].kind = "json" /\ reply[1].hasRecs /\ reply[1].hasInsight
    /\ Len(reply[1].entries) = 3 /\ ~reply[1].entries[2].ok
    /\ Len(response[1].recommendations) = 3
    /\ response[1].insight.source = "rules"

\* C2 (as claimed): a request made with a credential never ends without a
\* response; when the call timed out or was cancelled the response is the
\* deterministic ranker's.
C2_EndsWithResponse ==
    (apiKey /\ tasks # <<>> /\ pc \notin {"start", "awaiting"}) =>
        /\ pc = "done"
        /\ response # <<>>
        /\ reply[1].kind \in {"timeout", "cancelled"} => response = <<RuleBased>>

\* C3 (as claimed): the response of the rank-priorities operation never
\* holds more than 3 recommendations, on the rule-based path and on the
\* path of a successful backend reply.
C3_AtMostThree ==
    pc = "done" => Len(response[1].recommendations) <= 3

MatchingRules(text) == {k \in DOMAIN rules : RuleMatches(k, text)}

LeastOf(S) == CHOOSE k \in S : \A m \in S : k <= m

\* C10: the suggestion is that of the lowest-numbered rule with a keyword
\* that is a substring of the lowercased title + " " + description (rule 1,
\* critical and 4.0 h, for a text with both "security" and "budget"), and
\* medium, 2.0 h, confidence 0.70 when no rule has one.
C10_FirstMatchWins ==
    suggestOut # <<>> =>
        LET text == Lower(title \o <<" ">> \o description)
            S    == MatchingRules(text)
            out  == suggestOut[1]
        IN /\ S = {} => /\ out.priority = "medium"
                        /\ out.estimatedHours = 200
                        /\ out.confidence = 70
           /\ S # {} => /\ out.tip = LeastOf(S)
                        /\ out.priority = rules[LeastOf(S)].priority
                        /\ out.estimatedHours = rules[LeastOf(S)].estimatedHours
                        /\ out.confidence = rules[LeastOf(S)].confidence
           /\ (/\ Contains(text, <<"s", "e", "c", "u", "r", "i", "t", "y">>)
               /\ Contains(text, <<"b", "u", "d", "g", "e", "t">>))
                 => /\ out.priority = "critical"
                    /\ out.estimatedHours = 400

C10_Witness ==
    /\ suggestOut # <<>>
    /\ title = <<"s", "e", "c", "u", "r", "i", "t", "y">>
    /\ description = <<"B", "u", "d", "g", "e", "t">>
    /\ suggestOut[1].tip = 1
    /\ suggestOut[1].estimatedHours = 400

\* The value of a text of decimal digits
RECURSIVE DecimalValue(_)
DecimalValue(s) ==
    IF s = <<>> THEN 0
    ELSE 10 * DecimalValue(SubSeq(s, 1, Len(s) - 1)) + DigitValue(s[Len(s)])

\* Minutes since midnight that the text "H..H:MM" reads as
ClockMinutes(s) ==
    LET c == CHOOSE i \in 1..Len(s) : s[i] = ":"
    IN 60 * DecimalValue(SubSeq(s, 1, c - 1)) + DecimalValue(SubSeq(s, c + 1, Len(s)))

\* Whole minutes of the clock value x (hundredths of an hour)
WholeMinutes(x) == (x * 60) \div 100

\* The least whole number of hours that is at least x, in hundredths
WholeHoursUp(x) == CHOOSE c \in {100 * k : k \in 0..101} : c >= x /\ c - x < 100

\* Duration of the i-th block of the plan, i counted from 0
BlockDuration(i) == HoursOr2(tasks[planOut[1].timeBlocks[i + 1].taskId])

\* Where the contract puts the start of block i, i counted from 0
ContractStart(i) ==
    CASE i = 0 -> 900
      [] i = 1 -> 900 + WholeHoursUp(BlockDuration(0))
      [] i = 2 -> 900 + WholeHoursUp(BlockDuration(0))
                      + WholeHoursUp(BlockDuration(1)) + 50
      [] i = 3 -> 900 + WholeHoursUp(BlockDuration(0))
                      + WholeHoursUp(BlockDuration(1)) + 50
                      + WholeHoursUp(BlockDuration(2))

\* C11: the running clock starts at 9.0; block i starts at the running clock
\* and ends duration_i later; the clock then advances by ceil(duration_i),
\* and by 0.5 more only after block 1.  So block 1 starts at 9 + ceil(d0),
\* block 2 at 9 + ceil(d0) + ceil(d1) + 0.5, block 3 at block 2's start +
\* ceil(d2); durations 2 and 3 first give 9:00-11:00 and 11:00-14:00.
C11_RunningClock ==
    planOut # <<>> =>
        LET blocks == planOut[1].timeBlocks
        IN /\ \A i \in 0..(Len(blocks) - 1) :
                 /\ ClockMinutes(blocks[i + 1].startTime)
                       = WholeMinutes(ContractStart(i))
                 /\ ClockMinutes(blocks[i + 1].endTime)
                       = WholeMinutes(ContractStart(i) + BlockDuration(i))
           /\ (Len(blocks) >= 2 /\ BlockDuration(0) = 200 /\ BlockDuration(1) = 300)
                 => /\ blocks[1].startTime = <<"9", ":", "0", "0">>
                    /\ blocks[1].endTime   = <<"1", "1", ":", "0", "0">>
                    /\ blocks[2].startTime = <<"1", "1", ":", "0", "0">>
                    /\ blocks[2].endTime   = <<"1", "4", ":", "0", "0">>

C11_Witness ==
    /\ planOut # <<>>
    /\ Len(planOut[1].timeBlocks) = 4
    /\ BlockDuration(0) = 200 /\ BlockDuration(1) = 300 /\ BlockDuration(2) = 75
    /\ planOut[1].timeBlocks[2].startTime = <<"1", "1", ":", "0", "0">>
    /\ planOut[1].timeBlocks[3].startTime = <<"1", "4", ":", "3", "0">>
    /\ planOut[1].timeBlocks[3].endTime   = <<"1", "5", ":", "1", "5">>
    /\ planOut[1].timeBlocks[4].startTime = <<"1", "5", ":", "3", "0">>

\* C12: the time blocks are in chronological order and never overlap: each
\* block ends strictly after it starts, and each later block starts at or
\* after the end of the block before it.
C12_NoOverlap ==
    planOut # <<>> =>
        LET blocks == planOut[1].timeBlocks
        IN /\ \A i \in DOMAIN blocks :
                 ClockMinutes(blocks[i].endTime) > ClockMinutes(blocks[i].startTime)
           /\ \A i \in 1..(Len(blocks) - 1) :
                 ClockMinutes(blocks[i + 1].startTime)
                    >= ClockMinutes(blocks[i].endTime)

C12_Witness ==
    /\ planOut # <<>>
    /\ LET blocks == planOut[1].timeBlocks
       IN /\ Len(blocks) = 4
          /\ ClockMinutes(blocks[2].startTime) = ClockMinutes(blocks[1].endTime)
          /\ \E i \in 1..3 :
                /\ HoursOr2(tasks[blocks[i].taskId]) = 75
                /\ ClockMinutes(blocks[i + 1].startTime)
                      > ClockMinutes(blocks[i].endTime)
          /\ \E i \in 1..4 : HoursOr2(tasks[blocks[i].taskId]) = 10000

====
